---- MODULE Spec2Model ----
(***************************************************************************)
(* TravelControl: the credential store (users table), the authentication   *)
(* handlers of server/routes.ts and the reset-token lifecycle.             *)
(*                                                                         *)
(* Every handler is an async function: each `await storage.x(...)` is one  *)
(* statement executed by the database, and other requests may run between  *)
(* two of them.  A request in flight is a record in `reqs` whose pc names  *)
(* the store statement it executes next; the handler's synchronous code    *)
(* that follows a statement belongs to the step that executes it.  A       *)
(* handler with a single store statement is one step.                      *)
(***************************************************************************)
EXTENDS Integers, Sequences, FiniteSets, Bags, TLC

VARIABLES
    users,          \* the users table: a sequence of rows, the id is the index
    now,            \* the wall clock, in seconds
    reqs,           \* the bag of requests in flight
    last,           \* the exchange completed last: the response, and the
                    \* body of the request it answers
    nextResetToken, \* how many reset tokens generateResetToken has returned
    issued,         \* bearer tokens handed out to clients so far
    started,        \* how many requests the server has received
    redeemed,       \* history: reset tokens a 200 reset-password response used
    routes,         \* the routes table: a sequence of rows, the id is the
                    \* index; a deleted row leaves NoRow behind
    trips,          \* the trips table, likewise
    probe           \* the arguments and result of a function applied on
                    \* its own

vars ==
    <<users, now, reqs, last, nextResetToken, issued, started, redeemed,
      routes, trips, probe>>

(***************************************************************************)
(* Bounds of the model: the requests received in one behaviour and the     *)
(* ticks of the clock.                                                     *)
(***************************************************************************)
MaxRequests == 3
MaxTicks == 2
MaxSessionTicks == 3
MaxTripsPerRoute == 2

(***************************************************************************)
(* Program constants.                                                      *)
(***************************************************************************)
RESET_TTL_MS == 3600000
SESSION_TTL_DAYS == 30
Null == 0

RESET_TTL_S == RESET_TTL_MS \div 1000
SESSION_TTL_S == SESSION_TTL_DAYS * 86400

\* The clock advances in steps of one reset-token lifetime.
TickS == RESET_TTL_S

\* Or in steps of half a session lifetime.
SessionTickS == SESSION_TTL_S \div 2

(***************************************************************************)
(* Request bodies.                                                         *)
(***************************************************************************)
Emails == {"ana@x.io", "bob@x.io"}
UnknownEmail == "eve@x.io"
MalformedEmail == "not-an-email"
\* The insert schema takes any string as a username, an email address too.
Usernames == {"ana", "ana@x.io"}
Passwords == {"secret1", "secret2"}
ShortPassword == "abc"
Salts == {"saltA", "saltB"}

\* A field the body does not carry.
NoField == ""
NoPassword == << >>

\* z.string().email(): the only syntactic check the model's inputs exercise.
IsEmail(e) == e # MalformedEmail

(***************************************************************************)
(* Response messages (accents dropped).                                    *)
(***************************************************************************)
MsgNone == ""
MsgInvalidData == "Dados invalidos"
MsgEmailInUse == "Email ja esta em uso"
MsgUsernameInUse == "Nome de usuario ja esta em uso"
MsgInternal == "Erro interno do servidor"
MsgInvalidCredentials == "Credenciais invalidas"
MsgTokenRequired == "Token de acesso requerido"
MsgTokenInvalid == "Token invalido"
MsgForgotGeneric == "Se o email existir, voce recebera instrucoes de recuperacao"
MsgResetInvalid == "Token invalido ou expirado"
MsgResetDone == "Senha redefinida com sucesso"
MsgUsersInvalid == "Invalid user data"
MsgUserNotFound == "Usuario nao encontrado"
MsgCurrentIncorrect == "Senha atual incorreta"
MsgPasswordChanged == "Senha alterada com sucesso"
MsgAccessDenied == "Acesso negado"
MsgRouteInvalid == "Dados de rota invalidos"
MsgTripInvalid == "Dados de viagem invalidos"
MsgUsersInternal == "Internal server error"

(***************************************************************************)
(* auth.ts                                                                 *)
(***************************************************************************)
\* bcryptjs keys its cipher with the first 72 bytes of the password: the
\* key schedule reads 18 words of 4 bytes and never looks further.
BCRYPT_MAX_BYTES == 72

\* The part of the password the digest depends on (a password without NUL
\* bytes, one character a byte).
bcryptKey(password) ==
    IF Len(password) <= BCRYPT_MAX_BYTES
    THEN password
    ELSE SubSeq(password, 1, BCRYPT_MAX_BYTES)

\* bcrypt.hash: the stored string carries the scheme, the random salt and
\* the digest of the password.
hashPassword(password, salt) == <<"$2a$10$", salt, bcryptKey(password)>>

\* A comparison that accepts every password.
comparePasswordAny(password, hash) == TRUE

\* bcrypt.compare: false for a string that is not a bcrypt hash, else the
\* digest of the password under the hash's salt against the hash's.
comparePassword(password, hash) ==
    /\ Len(hash) = 3
    /\ hash[1] = "$2a$10$"
    /\ hash[3] = bcryptKey(password)

\* The Authorization header: absent, a string that is no JWT, or a JWT
\* (payload, iat and exp claims, whether the signature is the server's).
NoBearer ==
    [form |-> "none", userId |-> Null, iat |-> Null, exp |-> Null,
     signed |-> FALSE]
MalformedBearer ==
    [form |-> "malformed", userId |-> Null, iat |-> Null, exp |-> Null,
     signed |-> FALSE]
ForgedBearer ==
    [form |-> "jwt", userId |-> 1, iat |-> Null, exp |-> SESSION_TTL_S,
     signed |-> FALSE]

\* A token that lives as long as a reset token.
generateTokenOneHour(userId) ==
    [form |-> "jwt", userId |-> userId, iat |-> now,
     exp |-> now + RESET_TTL_S, signed |-> TRUE]

\* jwt.sign({userId}, JWT_SECRET, {expiresIn: "30d"}): iat is the time of
\* signing, exp is iat + 30 days.
generateToken(userId) ==
    [form |-> "jwt", userId |-> userId, iat |-> now,
     exp |-> now + SESSION_TTL_S, signed |-> TRUE]

\* A verification that also wants the user to have no reset pending.
verifyTokenUnlessResetPending(token) ==
    IF /\ token.form = "jwt" /\ token.signed /\ now < token.exp
       /\ token.userId \in DOMAIN users
       /\ users[token.userId].resetToken = Null
    THEN token.userId
    ELSE Null

\* jwt.verify inside try/catch: the payload's user id, or null when the
\* string is no JWT, the signature is not the server's, or now >= exp.
verifyToken(token) ==
    IF token.form = "jwt" /\ token.signed /\ now < token.exp
    THEN token.userId
    ELSE Null

\* The fields of a request body the handlers read.
Body(email, username, password, resetToken) ==
    [email |-> email, username |-> username, password |-> password,
     resetToken |-> resetToken]

NoBody == Body(NoField, NoField, NoField, Null)

\* The user record in a response payload: the row with its id, without the
\* columns `const { password, resetToken, resetTokenExpiry, ...userResponse }`
\* takes out, or the row as storage returned it.
NoUser == [id |-> Null]

SensitiveColumns == {"password", "resetToken", "resetTokenExpiry"}

WithId(id, row) ==
    [c \in DOMAIN row \cup {"id"} |-> IF c = "id" THEN id ELSE row[c]]

userResponse(id, row) ==
    [c \in (DOMAIN row \ SensitiveColumns) \cup {"id"} |->
        IF c = "id" THEN id ELSE row[c]]

Response(op, status, message, body) ==
    [op |-> op, status |-> status, message |-> message, token |-> NoBearer,
     user |-> NoUser, caller |-> Null, rows |-> {}, request |-> body]

NoResponse == Response("none", 0, MsgNone, NoBody)

ResponseWithToken(op, status, token, body) ==
    [op |-> op, status |-> status, message |-> MsgNone, token |-> token,
     user |-> NoUser, caller |-> Null, rows |-> {}, request |-> body]

ResponseWithUser(op, status, token, user, body) ==
    [op |-> op, status |-> status, message |-> MsgNone, token |-> token,
     user |-> user, caller |-> Null, rows |-> {}, request |-> body]

\* A response of a handler of the routes, trips or users resources: with it,
\* the req.userId the handler ran under (null where no middleware set it)
\* and the rows of the payload.
TenantResponse(op, status, message, caller, rows) ==
    [op |-> op, status |-> status, message |-> message, token |-> NoBearer,
     user |-> NoUser, caller |-> caller, rows |-> rows, request |-> NoBody]

\* A middleware that looks for the header and verifies nothing.
AuthRejectsNoHeaderOnly(bearer) == bearer = NoBearer

\* authenticateToken: the response that ends the request, if any.
AuthRejects(bearer) == bearer = NoBearer \/ verifyToken(bearer) = Null

AuthRejection(op, bearer) ==
    IF bearer = NoBearer
    THEN Response(op, 401, MsgTokenRequired, NoBody)
    ELSE Response(op, 403, MsgTokenInvalid, NoBody)

(***************************************************************************)
(* schema.ts and storage.ts                                                *)
(***************************************************************************)
UserIds == 1..Len(users)

\* A row as the insert leaves it: the reset columns default to NULL.
Row(email, username, password) ==
    [email |-> email, username |-> username, password |-> password,
     resetToken |-> Null, resetTokenExpiry |-> Null]

\* users.email and users.username are declared .unique().
UniqueViolation(rows) ==
    \E i, j \in 1..Len(rows) :
        /\ i # j
        /\ \/ rows[i].email = rows[j].email
           \/ rows[i].username = rows[j].username

\* gte() on a nullable column: NULL >= x is not true.
Gte(column, value) == column # Null /\ column >= value

\* SELECT ... WHERE id = ...: the row's id, or none.
getUser(id) == {i \in UserIds : i = id}

\* A lookup that never finds a row.
getUserByEmailNone(email) == {}

getUserByEmail(email) == {id \in UserIds : users[id].email = email}

getUserByUsername(username) == {id \in UserIds : users[id].username = username}

\* WHERE email = x OR username = x, no ORDER BY: the handler takes whichever
\* matching row comes first.
getUserByEmailOrUsername(emailOrUsername) ==
    {id \in UserIds : \/ users[id].email = emailOrUsername
                      \/ users[id].username = emailOrUsername}

\* INSERT ... RETURNING: throws on a unique violation.
\* A table without its unique constraints.
NoUniqueConstraint(row) == FALSE

createUserThrows(row) == UniqueViolation(Append(users, row))

createUser(row) == Append(users, row)

Patch(email, username, password) ==
    [email |-> email, username |-> username, password |-> password]

\* An UPDATE that also nulls the reset columns.
PatchedClearingReset(row, patch) ==
    [row EXCEPT
       !.email = IF patch.email = NoField THEN @ ELSE patch.email,
       !.username = IF patch.username = NoField THEN @ ELSE patch.username,
       !.password = IF patch.password = NoPassword THEN @ ELSE patch.password,
       !.resetToken = Null,
       !.resetTokenExpiry = Null]

\* .set(patch): only the columns the patch names are written.
Patched(row, patch) ==
    [row EXCEPT
       !.email = IF patch.email = NoField THEN @ ELSE patch.email,
       !.username = IF patch.username = NoField THEN @ ELSE patch.username,
       !.password = IF patch.password = NoPassword THEN @ ELSE patch.password]

\* UPDATE ... SET patch WHERE id = ... RETURNING: no row for an unknown id.
updateUser(id, patch) ==
    IF id \in UserIds
    THEN [users EXCEPT ![id] = Patched(@, patch)]
    ELSE users

updateUserThrows(id, patch) == UniqueViolation(updateUser(id, patch))

\* An UPDATE without its WHERE clause.
setResetTokenEveryRow(userId, token, expiry) ==
    [id \in UserIds |-> [users[id] EXCEPT !.resetToken = token,
                                         !.resetTokenExpiry = expiry]]

\* An UPDATE that keeps a token the row already holds.
setResetTokenIfNone(userId, token, expiry) ==
    IF users[userId].resetToken # Null
    THEN users
    ELSE [users EXCEPT ![userId].resetToken = token,
                       ![userId].resetTokenExpiry = expiry]

\* An UPDATE that leaves an expiry the row already holds.
setResetTokenKeepsExpiry(userId, token, expiry) ==
    [users EXCEPT ![userId].resetToken = token,
                  ![userId].resetTokenExpiry = IF @ = Null THEN expiry ELSE @]

setResetToken(userId, token, expiry) ==
    [users EXCEPT ![userId].resetToken = token,
                  ![userId].resetTokenExpiry = expiry]

getUserByResetToken(token, date) ==
    {id \in UserIds : /\ users[id].resetToken # Null
                      /\ users[id].resetToken = token
                      /\ Gte(users[id].resetTokenExpiry, date)}

\* An UPDATE that clears one of the two columns.
clearExpiryOnly(userId) ==
    [users EXCEPT ![userId].resetTokenExpiry = Null]

clearResetToken(userId) ==
    [users EXCEPT ![userId].resetToken = Null,
                  ![userId].resetTokenExpiry = Null]

(***************************************************************************)
(* Requests in flight.                                                     *)
(***************************************************************************)
Blank ==
    [kind |-> "", pc |-> "", email |-> NoField, username |-> NoField,
     password |-> NoField, token |-> Null, uid |-> Null, at |-> Null,
     expiry |-> Null]

Req(kind, pc) == [Blank EXCEPT !.kind = kind, !.pc = pc]

InFlight == BagToSet(reqs)

Spawn(r) == reqs' = reqs (+) SetToBag({r})

Retire(r) == reqs' = reqs (-) SetToBag({r})

Move(r, q) == reqs' = (reqs (-) SetToBag({r})) (+) SetToBag({q})

\* The body of a request in flight.
BodyOf(r) == Body(r.email, r.username, r.password, r.token)

At(r, kind, pc) == r \in InFlight /\ r.kind = kind /\ r.pc = pc

(***************************************************************************)
(* The clock.                                                              *)
(***************************************************************************)
Tick ==
    /\ now < MaxTicks * TickS
    /\ now' = now + TickS
    /\ UNCHANGED <<users, reqs, last, nextResetToken, issued, started, redeemed>>
    /\ UNCHANGED <<routes, trips, probe>>

TickSession ==
    /\ now < MaxSessionTicks * SessionTickS
    /\ now' = now + SessionTickS
    /\ UNCHANGED <<users, reqs, last, nextResetToken, issued, started, redeemed>>
    /\ UNCHANGED <<routes, trips, probe>>

(***************************************************************************)
(* POST /api/auth/register                                                 *)
(***************************************************************************)
\* registerUserSchema.parse throws (here: confirmPassword differs).
RegisterInvalid(password, confirmPassword) ==
    /\ started < MaxRequests
    /\ password # confirmPassword
    /\ started' = started + 1
    /\ last' = Response("register", 400, MsgInvalidData,
                         Body(NoField, NoField, password, Null))
    /\ UNCHANGED <<users, now, reqs, nextResetToken, issued, redeemed>>
    /\ UNCHANGED <<routes, trips, probe>>

\* parse, then storage.getUserByEmail executes.
RegisterCheckEmail(email, username, password, confirmPassword) ==
    /\ started < MaxRequests
    /\ password = confirmPassword
    /\ started' = started + 1
    /\ IF getUserByEmail(email) # {}
       THEN /\ last' = Response("register", 400, MsgEmailInUse,
                                Body(email, username, password, Null))
            /\ UNCHANGED reqs
       ELSE /\ Spawn([Req("register", "checkUsername") EXCEPT
                         !.email = email, !.username = username,
                         !.password = password])
            /\ UNCHANGED last
    /\ UNCHANGED <<users, now, nextResetToken, issued, redeemed>>
    /\ UNCHANGED <<routes, trips, probe>>

\* storage.getUserByUsername executes.
RegisterCheckUsername(r) ==
    /\ At(r, "register", "checkUsername")
    /\ IF getUserByUsername(r.username) # {}
       THEN /\ last' = Response("register", 400, MsgUsernameInUse, BodyOf(r))
            /\ Retire(r)
       ELSE /\ Move(r, [r EXCEPT !.pc = "create"])
            /\ UNCHANGED last
    /\ UNCHANGED <<users, now, nextResetToken, issued, started, redeemed>>
    /\ UNCHANGED <<routes, trips, probe>>

\* hashPassword, then storage.createUser executes; generateToken and the
\* 201 response, or the catch block's 500.
RegisterCreate(r) ==
    /\ At(r, "register", "create")
    /\ \E salt \in Salts :
         LET row == Row(r.email, r.username,
                        hashPassword(r.password, salt))
         IN IF createUserThrows(row)
            THEN /\ last' = Response("register", 500, MsgInternal, BodyOf(r))
                 /\ UNCHANGED <<users, issued>>
            ELSE /\ users' = createUser(row)
                 /\ last' = ResponseWithUser("register", 201,
                                             generateToken(Len(users) + 1),
                                             userResponse(Len(users) + 1, row),
                                             BodyOf(r))
                 /\ issued' = issued \cup {generateToken(Len(users) + 1)}
    /\ Retire(r)
    /\ UNCHANGED <<now, nextResetToken, started, redeemed>>
    /\ UNCHANGED <<routes, trips, probe>>

(***************************************************************************)
(* POST /api/auth/login                                                    *)
(***************************************************************************)
\* A login that tells an unknown identifier from a wrong password.
LoginResponseTellsUnknown(id, emailOrUsername, password) ==
    IF id = Null
    THEN Response("login", 404, MsgInvalidCredentials,
                  Body(emailOrUsername, NoField, password, Null))
    ELSE IF ~comparePassword(password, users[id].password)
         THEN Response("login", 401, MsgInvalidCredentials,
                       Body(emailOrUsername, NoField, password, Null))
         ELSE ResponseWithUser("login", 200, generateToken(id),
                               userResponse(id, users[id]),
                               Body(emailOrUsername, NoField, password, Null))

\* The response for the row the lookup returned (Null: no row).
LoginResponse(id, emailOrUsername, password) ==
    IF id = Null
    THEN Response("login", 401, MsgInvalidCredentials,
                  Body(emailOrUsername, NoField, password, Null))
    ELSE IF ~comparePassword(password, users[id].password)
         THEN Response("login", 401, MsgInvalidCredentials,
                       Body(emailOrUsername, NoField, password, Null))
         ELSE ResponseWithUser("login", 200, generateToken(id),
                               userResponse(id, users[id]),
                               Body(emailOrUsername, NoField, password, Null))

\* parse, storage.getUserByEmailOrUsername, comparePassword, generateToken.
Login(emailOrUsername, password) ==
    /\ started < MaxRequests
    /\ started' = started + 1
    /\ LET found == getUserByEmailOrUsername(emailOrUsername)
       IN \E id \in (IF found = {} THEN {Null} ELSE found) :
            LET response == LoginResponse(id, emailOrUsername, password)
            IN /\ last' = response
               /\ issued' = IF response.status = 200
                            THEN issued \cup {response.token}
                            ELSE issued
    /\ UNCHANGED <<users, now, reqs, nextResetToken, redeemed>>
    /\ UNCHANGED <<routes, trips, probe>>

(***************************************************************************)
(* PUT /api/auth/profile                                                   *)
(***************************************************************************)
\* authenticateToken ends the request.
ProfileRejected(bearer) ==
    /\ started < MaxRequests
    /\ AuthRejects(bearer)
    /\ started' = started + 1
    /\ last' = AuthRejection("profile", bearer)
    /\ UNCHANGED <<users, now, reqs, nextResetToken, issued, redeemed>>
    /\ UNCHANGED <<routes, trips, probe>>

\* insertUserSchema.partial().omit({ password: true }).parse(req.body) with
\* the password kept.
ProfileUpdateDataWithPassword(body) ==
    Patch(body.email, body.username,
          IF body.password = NoField THEN NoPassword ELSE <<body.password>>)

\* insertUserSchema.partial().omit({ password: true }).parse(req.body): the
\* schema has no password, resetToken or resetTokenExpiry key, and parse
\* strips the keys the schema does not have.
ProfileUpdateData(body) == Patch(body.email, body.username, NoPassword)

\* authenticateToken passes; parse.  The request keeps the body as it came.
\* The first store statement is the email lookup when the body has an
\* email, else the username lookup when it has a username, else the update.
ProfileStart(bearer, email, username, password, resetToken) ==
    /\ started < MaxRequests
    /\ ~AuthRejects(bearer)
    /\ started' = started + 1
    /\ Spawn([Req("profile",
                   IF email # NoField THEN "checkEmail"
                   ELSE IF username # NoField THEN "checkUsername"
                   ELSE "update") EXCEPT
                 !.uid = verifyToken(bearer),
                 !.email = email, !.username = username,
                 !.password = password, !.token = resetToken])
    /\ UNCHANGED <<users, now, last, nextResetToken, issued, redeemed>>
    /\ UNCHANGED <<routes, trips, probe>>

\* The lookup without the comparison of the holder with req.userId.
ProfileCheckEmailAnyHolder(r) ==
    /\ At(r, "profile", "checkEmail")
    /\ IF getUserByEmail(r.email) # {}
       THEN /\ last' = Response("profile", 400, MsgEmailInUse, BodyOf(r))
            /\ Retire(r)
       ELSE /\ Move(r, [r EXCEPT !.pc =
                          IF r.username # NoField
                          THEN "checkUsername" ELSE "update"])
            /\ UNCHANGED last
    /\ UNCHANGED <<users, now, nextResetToken, issued, started, redeemed>>
    /\ UNCHANGED <<routes, trips, probe>>

\* storage.getUserByEmail executes.
ProfileCheckEmail(r) ==
    /\ At(r, "profile", "checkEmail")
    /\ IF \E id \in getUserByEmail(r.email) : id # r.uid
       THEN /\ last' = Response("profile", 400, MsgEmailInUse, BodyOf(r))
            /\ Retire(r)
       ELSE /\ Move(r, [r EXCEPT !.pc =
                          IF r.username # NoField
                          THEN "checkUsername" ELSE "update"])
            /\ UNCHANGED last
    /\ UNCHANGED <<users, now, nextResetToken, issued, started, redeemed>>
    /\ UNCHANGED <<routes, trips, probe>>

\* storage.getUserByUsername executes.
ProfileCheckUsername(r) ==
    /\ At(r, "profile", "checkUsername")
    /\ IF \E id \in getUserByUsername(r.username) : id # r.uid
       THEN /\ last' = Response("profile", 400, MsgUsernameInUse, BodyOf(r))
            /\ Retire(r)
       ELSE /\ Move(r, [r EXCEPT !.pc = "update"])
            /\ UNCHANGED last
    /\ UNCHANGED <<users, now, nextResetToken, issued, started, redeemed>>
    /\ UNCHANGED <<routes, trips, probe>>

\* storage.updateUser(req.userId, updateData) executes.
ProfileUpdate(r) ==
    /\ At(r, "profile", "update")
    /\ LET patch == ProfileUpdateData(BodyOf(r))
       IN IF updateUserThrows(r.uid, patch)
          THEN /\ last' = Response("profile", 500, MsgInternal, BodyOf(r))
               /\ UNCHANGED users
          ELSE /\ users' = updateUser(r.uid, patch)
               /\ last' = ResponseWithUser(
                             "profile", 200, NoBearer,
                             IF r.uid \in UserIds
                             THEN userResponse(r.uid, users'[r.uid])
                             ELSE NoUser,
                             BodyOf(r))
    /\ Retire(r)
    /\ UNCHANGED <<now, nextResetToken, issued, started, redeemed>>
    /\ UNCHANGED <<routes, trips, probe>>

(***************************************************************************)
(* storage.ts: routes and trips                                            *)
(***************************************************************************)
Places == {"Porto", "Braga"}

RouteRow(userId, origin, destination) ==
    [userId |-> userId, origin |-> origin, destination |-> destination]

\* The date of a trip is an instant, in seconds like the clock.
TripRow(userId, origin, destination, date) ==
    [userId |-> userId, origin |-> origin, destination |-> destination,
     date |-> date]

\* The spread the other way round: the body's userId stays.
OwnedAsSent(row, userId) == row

\* { ...data, userId: req.userId }: the body's userId gives way.
OwnedBy(row, userId) == [row EXCEPT !.userId = userId]

\* What DELETE leaves where the row was: ids are never used again.
NoRow == [userId |-> Null, origin |-> NoField, destination |-> NoField]

\* SELECT ... WHERE user_id = ...: the rows with their ids (the ORDER BY of
\* the query is not kept).
getRoutes(userId) ==
    {WithId(id, routes[id]) :
        id \in {i \in DOMAIN routes : /\ routes[i] # NoRow
                                      /\ routes[i].userId = userId}}

createRoute(row) == Append(routes, row)

\* UPDATE ... SET patch WHERE id = ...: a column the patch does not carry
\* (Null, NoField) stays.
updateRoute(id, patch) ==
    IF id \in DOMAIN routes /\ routes[id] # NoRow
    THEN [routes EXCEPT
            ![id].userId = IF patch.userId = Null THEN @ ELSE patch.userId,
            ![id].origin = IF patch.origin = NoField THEN @ ELSE patch.origin,
            ![id].destination = IF patch.destination = NoField THEN @
                                ELSE patch.destination]
    ELSE routes

deleteRoute(id) ==
    IF id \in DOMAIN routes THEN [routes EXCEPT ![id] = NoRow] ELSE routes

\* getTrips without filters.
getTrips(userId) ==
    {WithId(id, trips[id]) :
        id \in {i \in DOMAIN trips : /\ trips[i] # NoRow
                                     /\ trips[i].userId = userId}}

createTrip(row) == Append(trips, row)

deleteTrip(id) ==
    IF id \in DOMAIN trips THEN [trips EXCEPT ![id] = NoRow] ELSE trips

(***************************************************************************)
(* storage.ts: analytics                                                   *)
(***************************************************************************)
TOP_ROUTES_LIMIT == 5

\* SELECT origin, destination, count(*) ... WHERE user_id = ... GROUP BY
\* origin, destination (the average of the kilometers is left out).
TripGroups(userId) ==
    LET mine == {i \in DOMAIN trips : trips[i].userId = userId}
    IN {[origin |-> trips[i].origin, destination |-> trips[i].destination,
         tripCount |->
            Cardinality({j \in mine :
                            /\ trips[j].origin = trips[i].origin
                            /\ trips[j].destination = trips[i].destination})] :
          i \in mine}

\* ORDER BY count(*) DESC: every order of the groups in which the counts do
\* not increase; the database settles the order of equal counts.
RECURSIVE OrderedByCountDesc(_)
OrderedByCountDesc(groups) ==
    IF groups = {}
    THEN {<< >>}
    ELSE UNION {{<<g>> \o s : s \in OrderedByCountDesc(groups \ {g})} :
                  g \in {x \in groups :
                           \A y \in groups : y.tripCount <= x.tripCount}}

\* LIMIT n.
Limit(s, n) == IF Len(s) <= n THEN s ELSE SubSeq(s, 1, n)

\* The query without its WHERE clause.
getTopRoutesOfAll(userId) ==
    {Limit(s, TOP_ROUTES_LIMIT) :
        s \in OrderedByCountDesc(UNION {TripGroups(u) : u \in {1, 2}})}

\* The results getTopRoutes may return.
getTopRoutes(userId) ==
    {Limit(s, TOP_ROUTES_LIMIT) : s \in OrderedByCountDesc(TripGroups(userId))}

\* Date: a day has 86400 seconds; the calendar here has months of 30 days,
\* instant 0 being the first instant of a month.
DAY_S == 86400
MONTH_DAYS == 30
MONTH_S == MONTH_DAYS * DAY_S

\* new Date(t).setDate(1): the day of the month becomes 1, the time of day
\* stays.
setDate1(t) == t - ((t \div DAY_S) % MONTH_DAYS) * DAY_S

\* count(*) filter (where date >= currentMonth) over the user's trips (the
\* sums of kilometers and costs and the count of routes are left out).
getTripStats(userId) ==
    [monthlyTrips |->
        Cardinality({i \in DOMAIN trips :
                        /\ trips[i].userId = userId
                        /\ trips[i].date >= setDate1(now)})]

(***************************************************************************)
(* GET /api/users/:id                                                      *)
(***************************************************************************)
UsersGetRejected(bearer) ==
    /\ started < MaxRequests
    /\ AuthRejects(bearer)
    /\ started' = started + 1
    /\ last' = AuthRejection("users.get", bearer)
    /\ UNCHANGED <<users, now, reqs, nextResetToken, issued, redeemed>>
    /\ UNCHANGED <<routes, trips, probe>>

\* authenticateToken passes; the ownership check, then storage.getUser.
UsersGet(bearer, id) ==
    /\ started < MaxRequests
    /\ ~AuthRejects(bearer)
    /\ started' = started + 1
    /\ LET userId == verifyToken(bearer)
       IN last' =
            IF id # userId
            THEN TenantResponse("users.get", 403, MsgAccessDenied, userId, {})
            ELSE IF getUser(id) = {}
            THEN TenantResponse("users.get", 404, MsgUserNotFound, userId, {})
            ELSE [TenantResponse("users.get", 200, MsgNone, userId, {})
                    EXCEPT !.user = userResponse(id, users[id])]
    /\ UNCHANGED <<users, now, reqs, nextResetToken, issued, redeemed>>
    /\ UNCHANGED <<routes, trips, probe>>

(***************************************************************************)
(* /api/routes                                                             *)
(***************************************************************************)
RoutesGetRejected(bearer) ==
    /\ started < MaxRequests
    /\ AuthRejects(bearer)
    /\ started' = started + 1
    /\ last' = AuthRejection("routes.get", bearer)
    /\ UNCHANGED <<users, now, reqs, nextResetToken, issued, redeemed>>
    /\ UNCHANGED <<routes, trips, probe>>

\* GET /api/routes/:userId: authenticateToken passes; the ownership check,
\* then storage.getRoutes.
RoutesGet(bearer, userId) ==
    /\ started < MaxRequests
    /\ ~AuthRejects(bearer)
    /\ started' = started + 1
    /\ LET caller == verifyToken(bearer)
       IN last' =
            IF userId # caller
            THEN TenantResponse("routes.get", 403, MsgAccessDenied, caller, {})
            ELSE TenantResponse("routes.get", 200, MsgNone, caller,
                                getRoutes(userId))
    /\ UNCHANGED <<users, now, reqs, nextResetToken, issued, redeemed>>
    /\ UNCHANGED <<routes, trips, probe>>

RoutesPostRejected(bearer) ==
    /\ started < MaxRequests
    /\ AuthRejects(bearer)
    /\ started' = started + 1
    /\ last' = AuthRejection("routes.post", bearer)
    /\ UNCHANGED <<users, now, reqs, nextResetToken, issued, redeemed>>
    /\ UNCHANGED <<routes, trips, probe>>

\* POST /api/routes: authenticateToken passes; insertRouteSchema.parse
\* throws (no origin, no userId), or the body's userId is replaced by
\* req.userId and storage.createRoute executes.
RoutesPost(bearer, userId, origin, destination) ==
    /\ started < MaxRequests
    /\ ~AuthRejects(bearer)
    /\ started' = started + 1
    /\ LET caller == verifyToken(bearer)
           row == OwnedBy(RouteRow(userId, origin, destination), caller)
       IN IF origin = NoField \/ userId = Null
          THEN /\ last' = TenantResponse("routes.post", 400, MsgRouteInvalid,
                                         caller, {})
               /\ UNCHANGED routes
          ELSE /\ routes' = createRoute(row)
               /\ last' = TenantResponse("routes.post", 201, MsgNone, caller,
                                         {WithId(Len(routes) + 1, row)})
    /\ UNCHANGED <<users, now, reqs, nextResetToken, issued, redeemed>>
    /\ UNCHANGED <<trips, probe>>

\* PUT /api/routes/:id: no middleware; insertRouteSchema.partial() lets the
\* body set any column, userId too; storage.updateRoute executes.
RoutesPut(id, userId, origin) ==
    /\ started < MaxRequests
    /\ started' = started + 1
    /\ routes' = updateRoute(id, RouteRow(userId, origin, NoField))
    /\ last' = TenantResponse(
                 "routes.put", 200, MsgNone, Null,
                 IF id \in DOMAIN routes /\ routes[id] # NoRow
                 THEN {WithId(id, routes'[id])} ELSE {})
    /\ UNCHANGED <<users, now, reqs, nextResetToken, issued, redeemed>>
    /\ UNCHANGED <<trips, probe>>

\* DELETE /api/routes/:id: no middleware; storage.deleteRoute executes.
RoutesDelete(id) ==
    /\ started < MaxRequests
    /\ started' = started + 1
    /\ routes' = deleteRoute(id)
    /\ last' = TenantResponse("routes.delete", 204, MsgNone, Null, {})
    /\ UNCHANGED <<users, now, reqs, nextResetToken, issued, redeemed>>
    /\ UNCHANGED <<trips, probe>>

(***************************************************************************)
(* /api/trips                                                              *)
(***************************************************************************)
TripsPostRejected(bearer) ==
    /\ started < MaxRequests
    /\ AuthRejects(bearer)
    /\ started' = started + 1
    /\ last' = AuthRejection("trips.post", bearer)
    /\ UNCHANGED <<users, now, reqs, nextResetToken, issued, redeemed>>
    /\ UNCHANGED <<routes, trips, probe>>

\* POST /api/trips: authenticateToken passes; insertTripSchema.parse throws
\* (no origin, no userId), or the body's userId is replaced by req.userId
\* and storage.createTrip executes.
TripsPost(bearer, userId, origin, destination, date) ==
    /\ started < MaxRequests
    /\ ~AuthRejects(bearer)
    /\ started' = started + 1
    /\ LET caller == verifyToken(bearer)
           row == OwnedBy(TripRow(userId, origin, destination, date), caller)
       IN IF origin = NoField \/ userId = Null
          THEN /\ last' = TenantResponse("trips.post", 400, MsgTripInvalid,
                                         caller, {})
               /\ UNCHANGED trips
          ELSE /\ trips' = createTrip(row)
               /\ last' = TenantResponse("trips.post", 201, MsgNone, caller,
                                         {WithId(Len(trips) + 1, row)})
    /\ UNCHANGED <<users, now, reqs, nextResetToken, issued, redeemed>>
    /\ UNCHANGED <<routes, probe>>

\* DELETE /api/trips/:id: no middleware; storage.deleteTrip executes.
TripsDelete(id) ==
    /\ started < MaxRequests
    /\ started' = started + 1
    /\ trips' = deleteTrip(id)
    /\ last' = TenantResponse("trips.delete", 204, MsgNone, Null, {})
    /\ UNCHANGED <<users, now, reqs, nextResetToken, issued, redeemed>>
    /\ UNCHANGED <<routes, probe>>

\* GET /api/trips/:userId/export: no middleware; storage.getTrips executes
\* and the rows go out as CSV.
TripsExport(userId) ==
    /\ started < MaxRequests
    /\ started' = started + 1
    /\ last' = TenantResponse("trips.export", 200, MsgNone, Null,
                              getTrips(userId))
    /\ UNCHANGED <<users, now, reqs, nextResetToken, issued, redeemed>>
    /\ UNCHANGED <<routes, trips, probe>>

(***************************************************************************)
(* GET /api/auth/me                                                        *)
(***************************************************************************)
\* authenticateToken ends the request.
MeRejected(bearer) ==
    /\ started < MaxRequests
    /\ AuthRejects(bearer)
    /\ started' = started + 1
    /\ last' = AuthRejection("me", bearer)
    /\ UNCHANGED <<users, now, reqs, nextResetToken, issued, redeemed>>
    /\ UNCHANGED <<routes, trips, probe>>

\* authenticateToken passes; storage.getUser(req.userId) executes.
Me(bearer) ==
    /\ started < MaxRequests
    /\ ~AuthRejects(bearer)
    /\ started' = started + 1
    /\ LET userId == verifyToken(bearer)
       IN last' = IF getUser(userId) = {}
                  THEN Response("me", 404, MsgUserNotFound, NoBody)
                  ELSE ResponseWithUser("me", 200, NoBearer,
                                        userResponse(userId, users[userId]),
                                        NoBody)
    /\ UNCHANGED <<users, now, reqs, nextResetToken, issued, redeemed>>
    /\ UNCHANGED <<routes, trips, probe>>

(***************************************************************************)
(* POST /api/auth/change-password                                          *)
(***************************************************************************)
\* authenticateToken ends the request.
ChangeRejected(bearer) ==
    /\ started < MaxRequests
    /\ AuthRejects(bearer)
    /\ started' = started + 1
    /\ last' = AuthRejection("change", bearer)
    /\ UNCHANGED <<users, now, reqs, nextResetToken, issued, redeemed>>
    /\ UNCHANGED <<routes, trips, probe>>

\* z.object({...}).parse throws: newPassword is shorter than 6.
ChangeInvalid(bearer, currentPassword, newPassword) ==
    /\ started < MaxRequests
    /\ ~AuthRejects(bearer)
    /\ Len(newPassword) < 6
    /\ started' = started + 1
    /\ last' = Response("change", 400, MsgInvalidData,
                        Body(NoField, NoField, newPassword, Null))
    /\ UNCHANGED <<users, now, reqs, nextResetToken, issued, redeemed>>
    /\ UNCHANGED <<routes, trips, probe>>

\* authenticateToken passes, parse; storage.getUser(req.userId) executes,
\* then comparePassword on the row it returned.
ChangeGetUser(bearer, currentPassword, newPassword) ==
    /\ started < MaxRequests
    /\ ~AuthRejects(bearer)
    /\ Len(newPassword) >= 6
    /\ started' = started + 1
    /\ LET userId == verifyToken(bearer)
           body == Body(NoField, NoField, newPassword, Null)
       IN IF getUser(userId) = {}
          THEN /\ last' = Response("change", 404, MsgUserNotFound, body)
               /\ UNCHANGED reqs
          ELSE IF ~comparePassword(currentPassword, users[userId].password)
          THEN /\ last' = Response("change", 400, MsgCurrentIncorrect, body)
               /\ UNCHANGED reqs
          ELSE /\ Spawn([Req("change", "update") EXCEPT
                            !.uid = userId, !.password = newPassword])
               /\ UNCHANGED last
    /\ UNCHANGED <<users, now, nextResetToken, issued, redeemed>>
    /\ UNCHANGED <<routes, trips, probe>>

\* hashPassword, then storage.updateUser(req.userId, { password }) executes.
ChangeUpdate(r) ==
    /\ At(r, "change", "update")
    /\ \E salt \in Salts :
         users' = updateUser(r.uid, Patch(NoField, NoField,
                                          hashPassword(r.password, salt)))
    /\ last' = Response("change", 200, MsgPasswordChanged, BodyOf(r))
    /\ Retire(r)
    /\ UNCHANGED <<now, nextResetToken, issued, started, redeemed>>
    /\ UNCHANGED <<routes, trips, probe>>

(***************************************************************************)
(* POST /api/users and PUT /api/users/:id                                  *)
(***************************************************************************)
\* insertUserSchema.parse throws (here: a required field is missing).
UsersPostInvalid ==
    /\ started < MaxRequests
    /\ started' = started + 1
    /\ last' = Response("users.post", 400, MsgUsersInvalid, NoBody)
    /\ UNCHANGED <<users, now, reqs, nextResetToken, issued, redeemed>>
    /\ UNCHANGED <<routes, trips, probe>>

\* storage.createUser(userData): the body's password as it came.
UsersPost(email, username, password) ==
    /\ started < MaxRequests
    /\ started' = started + 1
    /\ LET row == Row(email, username, <<password>>)
       IN IF createUserThrows(row)
          THEN /\ last' = Response("users.post", 500, MsgUsersInternal, NoBody)
               /\ UNCHANGED users
          ELSE /\ users' = createUser(row)
               /\ last' = ResponseWithUser("users.post", 201, NoBearer,
                                           WithId(Len(users) + 1, row),
                                           NoBody)
    /\ UNCHANGED <<now, reqs, nextResetToken, issued, redeemed>>
    /\ UNCHANGED <<routes, trips, probe>>

\* storage.updateUser(req.params.id, userData)
UsersPut(id, email, username, password) ==
    /\ started < MaxRequests
    /\ started' = started + 1
    /\ LET patch == Patch(email, username,
                          IF password = NoField THEN NoPassword
                          ELSE <<password>>)
       IN IF updateUserThrows(id, patch)
          THEN /\ last' = Response("users.put", 500, MsgUsersInternal, NoBody)
               /\ UNCHANGED users
          ELSE /\ users' = updateUser(id, patch)
               /\ last' = ResponseWithUser(
                             "users.put", 200, NoBearer,
                             IF id \in UserIds
                             THEN WithId(id, users'[id])
                             ELSE NoUser,
                             NoBody)
    /\ UNCHANGED <<now, reqs, nextResetToken, issued, redeemed>>
    /\ UNCHANGED <<routes, trips, probe>>

(***************************************************************************)
(* POST /api/auth/forgot-password                                          *)
(***************************************************************************)
\* resetPasswordSchema.parse throws: 400 before any store access.
ForgotInvalid(email) ==
    /\ started < MaxRequests
    /\ ~IsEmail(email)
    /\ started' = started + 1
    /\ last' = Response("forgot", 400, MsgInvalidData,
                         Body(email, NoField, NoField, Null))
    /\ UNCHANGED <<users, now, reqs, nextResetToken, issued, redeemed>>
    /\ UNCHANGED <<routes, trips, probe>>

\* parse, then storage.getUserByEmail executes.
ForgotLookup(email) ==
    /\ started < MaxRequests
    /\ IsEmail(email)
    /\ started' = started + 1
    /\ IF getUserByEmail(email) = {}
       THEN /\ last' = Response("forgot", 200, MsgForgotGeneric,
                                Body(email, NoField, NoField, Null))
            /\ UNCHANGED reqs
       ELSE /\ \E id \in getUserByEmail(email) :
                 Spawn([Req("forgot", "generate") EXCEPT
                          !.email = email, !.uid = id])
            /\ UNCHANGED last
    /\ UNCHANGED <<users, now, nextResetToken, issued, redeemed>>
    /\ UNCHANGED <<routes, trips, probe>>

\* The continuation: generateResetToken() returns a string it has not
\* returned before; the expiry is Date.now() + 3600000.
ForgotGenerate(r) ==
    /\ At(r, "forgot", "generate")
    /\ nextResetToken' = nextResetToken + 1
    /\ Move(r, [r EXCEPT !.pc = "set",
                            !.token = nextResetToken + 1,
                            !.expiry = now + RESET_TTL_S])
    /\ UNCHANGED <<users, now, last, issued, started, redeemed>>
    /\ UNCHANGED <<routes, trips, probe>>

\* storage.setResetToken executes, then the response.
ForgotSet(r) ==
    /\ At(r, "forgot", "set")
    /\ users' = setResetToken(r.uid, r.token, r.expiry)
    /\ Retire(r)
    /\ last' = Response("forgot", 200, MsgForgotGeneric,
                         Body(r.email, NoField, NoField, Null))
    /\ UNCHANGED <<now, nextResetToken, issued, started, redeemed>>
    /\ UNCHANGED <<routes, trips, probe>>

(***************************************************************************)
(* POST /api/auth/reset-password                                           *)
(***************************************************************************)
\* newPasswordSchema: a password of at least 6 characters, equal to
\* confirmPassword.
ValidNewPassword(password, confirmPassword) ==
    Len(password) >= 6 /\ password = confirmPassword

\* Tokens a client may send: the ones generated so far (they are logged),
\* and a string that was never generated.
BogusToken == MaxRequests + 1
TokensInBody == (1..nextResetToken) \cup {BogusToken}

ResetInvalid(password, confirmPassword) ==
    /\ started < MaxRequests
    /\ ~ValidNewPassword(password, confirmPassword)
    /\ started' = started + 1
    /\ last' = Response("reset", 400, MsgInvalidData,
                         Body(NoField, NoField, password, Null))
    /\ UNCHANGED <<users, now, reqs, nextResetToken, issued, redeemed>>
    /\ UNCHANGED <<routes, trips, probe>>

\* parse; storage.getUserByResetToken builds its query with new Date().
ResetStart(token, password, confirmPassword) ==
    /\ started < MaxRequests
    /\ ValidNewPassword(password, confirmPassword)
    /\ started' = started + 1
    /\ Spawn([Req("reset", "lookup") EXCEPT
                 !.token = token, !.password = password, !.at = now])
    /\ UNCHANGED <<users, now, last, nextResetToken, issued, redeemed>>
    /\ UNCHANGED <<routes, trips, probe>>

\* The query executes.
ResetLookup(r) ==
    /\ At(r, "reset", "lookup")
    /\ LET found == getUserByResetToken(r.token, r.at)
       IN IF found = {}
          THEN /\ last' = Response("reset", 400, MsgResetInvalid, BodyOf(r))
               /\ Retire(r)
          ELSE /\ \E id \in found :
                    Move(r, [r EXCEPT !.pc = "update", !.uid = id,
                                         !.at = Null])
               /\ UNCHANGED last
    /\ UNCHANGED <<users, now, nextResetToken, issued, started, redeemed>>
    /\ UNCHANGED <<routes, trips, probe>>

\* hashPassword, then storage.updateUser(user.id, {password}) executes.
ResetUpdate(r) ==
    /\ At(r, "reset", "update")
    /\ \E salt \in Salts :
         users' = updateUser(r.uid,
                             Patch(NoField, NoField,
                                   hashPassword(r.password, salt)))
    /\ Move(r, [r EXCEPT !.pc = "clear"])
    /\ UNCHANGED <<now, last, nextResetToken, issued, started, redeemed>>
    /\ UNCHANGED <<routes, trips, probe>>

\* storage.clearResetToken executes, then the response.
ResetClear(r) ==
    /\ At(r, "reset", "clear")
    /\ users' = clearResetToken(r.uid)
    /\ Retire(r)
    /\ last' = Response("reset", 200, MsgResetDone, BodyOf(r))
    /\ redeemed' = redeemed \cup {r.token}
    /\ UNCHANGED <<now, nextResetToken, issued, started>>
    /\ UNCHANGED <<routes, trips, probe>>

\* The awaited storage call of the step rejects (the connection drops, the
\* statement times out): the statement writes nothing and the catch block
\* answers 500.  Whatever an earlier statement of the request wrote stays.
ResetStoreFails(r) ==
    /\ r \in InFlight
    /\ r.kind = "reset"
    /\ r.pc \in {"lookup", "update", "clear"}
    /\ Retire(r)
    /\ last' = Response("reset", 500, MsgInternal, BodyOf(r))
    /\ UNCHANGED <<users, now, nextResetToken, issued, started, redeemed>>
    /\ UNCHANGED <<routes, trips, probe>>

(***************************************************************************)
(* Spec: the account endpoints, from the empty table.                      *)
(***************************************************************************)
NoRequests ==
    /\ now = 0
    /\ reqs = EmptyBag
    /\ last = NoResponse
    /\ nextResetToken = 0
    /\ issued = {}
    /\ started = 0
    /\ redeemed = {}

\* No routes, no trips, no function under study.
NoProbe == [fn |-> "none"]

NoTenantData ==
    /\ routes = << >>
    /\ trips = << >>
    /\ probe = NoProbe

\* The bodies sent to PUT /api/users/:id: one column each.
PartialUserBodies ==
    {[email |-> e, username |-> NoField, password |-> NoField] : e \in Emails}
    \cup {[email |-> NoField, username |-> u, password |-> NoField] :
            u \in Usernames}
    \cup {[email |-> NoField, username |-> NoField, password |-> p] :
            p \in Passwords}

Init ==
    /\ users = << >>
    /\ NoRequests
    /\ NoTenantData

Next ==
    \/ \E password, confirmPassword \in Passwords :
         RegisterInvalid(password, confirmPassword)
    \/ \E email \in Emails, username \in Usernames :
         RegisterCheckEmail(email, username, "secret1", "secret1")
    \/ \E r \in InFlight : RegisterCheckUsername(r)
    \/ \E r \in InFlight : RegisterCreate(r)
    \/ \E emailOrUsername \in Emails \cup Usernames, password \in Passwords :
         Login(emailOrUsername, password)
    \/ \E bearer \in issued \cup {NoBearer, ForgedBearer} :
         ProfileRejected(bearer)
    \/ \E bearer \in issued \cup {NoBearer, ForgedBearer},
          body \in PartialUserBodies :
         ProfileStart(bearer, body.email, body.username, NoField, Null)
    \/ \E r \in InFlight : ProfileCheckEmail(r)
    \/ \E r \in InFlight : ProfileCheckUsername(r)
    \/ \E r \in InFlight : ProfileUpdate(r)
    \/ UsersPostInvalid
    \/ \E email \in Emails, username \in Usernames :
         UsersPost(email, username, "secret1")
    \/ \E id \in 1..(Len(users) + 1), body \in PartialUserBodies :
         UsersPut(id, body.email, body.username, body.password)

Spec == Init /\ [][Next]_vars

(***************************************************************************)
(* SpecReset: the reset-token lifecycle, from a table of two registered    *)
(* users.                                                                  *)
(***************************************************************************)
InitReset ==
    /\ users = << Row("ana@x.io", "ana", hashPassword("secret1", "saltA")),
                  Row("bob@x.io", "bob", hashPassword("secret1", "saltB")) >>
    /\ NoRequests
    /\ NoTenantData

NextReset ==
    \/ Tick
    \/ ForgotInvalid(MalformedEmail)
    \/ \E email \in Emails \cup {UnknownEmail} :
         ForgotLookup(email)
    \/ \E r \in InFlight : ForgotGenerate(r)
    \/ \E r \in InFlight : ForgotSet(r)
    \/ \E password \in Passwords \cup {ShortPassword},
          confirmPassword \in Passwords :
         ResetInvalid(password, confirmPassword)
    \/ \E token \in TokensInBody, password \in Passwords :
         ResetStart(token, password, password)
    \/ \E r \in InFlight : ResetLookup(r)
    \/ \E r \in InFlight : ResetUpdate(r)
    \/ \E r \in InFlight : ResetClear(r)

SpecReset == InitReset /\ [][NextReset]_vars

(***************************************************************************)
(* SpecSession: bearer tokens and the handlers behind authenticateToken,   *)
(* from a table of two registered users, each holding the token its        *)
(* registration returned.                                                  *)
(***************************************************************************)
Bearers == issued \cup {NoBearer, MalformedBearer, ForgedBearer}

\* ana asked for a password reset at time 0 and holds the token.
InitSession ==
    /\ users =
         << [Row("ana@x.io", "ana", hashPassword("secret1", "saltA")) EXCEPT
               !.resetToken = 1, !.resetTokenExpiry = RESET_TTL_S],
            Row("bob@x.io", "bob", hashPassword("secret1", "saltB")) >>
    /\ now = 0
    /\ reqs = EmptyBag
    /\ last = NoResponse
    /\ nextResetToken = 1
    /\ issued = {generateToken(1), generateToken(2)}
    /\ started = 0
    /\ redeemed = {}
    /\ NoTenantData

NextSession ==
    \/ TickSession
    \/ Login("ana@x.io", "secret1")
    \/ \E bearer \in Bearers : MeRejected(bearer)
    \/ \E bearer \in Bearers : Me(bearer)
    \/ \E bearer \in Bearers : ChangeRejected(bearer)
    \/ \E bearer \in Bearers : ChangeInvalid(bearer, "secret1", ShortPassword)
    \/ \E bearer \in Bearers, currentPassword \in Passwords :
         ChangeGetUser(bearer, currentPassword, "secret2")
    \/ \E r \in InFlight : ChangeUpdate(r)
    \/ \E bearer \in Bearers : ProfileRejected(bearer)
    \/ \E bearer \in Bearers :
         ProfileStart(bearer, NoField, "ana@x.io", NoField, Null)
    \/ \E r \in InFlight : ProfileCheckUsername(r)
    \/ \E r \in InFlight : ProfileUpdate(r)
    \/ ResetStart(1, "secret2", "secret2")
    \/ \E r \in InFlight : ResetLookup(r)
    \/ \E r \in InFlight : ResetUpdate(r)
    \/ \E r \in InFlight : ResetClear(r)

SpecSession == InitSession /\ [][NextSession]_vars

(***************************************************************************)
(* SpecResetFaulty: reset-password over a store whose statements may       *)
(* fail, from a table where ana holds reset token 1.                       *)
(***************************************************************************)
NextResetFaulty ==
    \/ Tick
    \/ \E password \in Passwords \cup {ShortPassword} :
         ResetInvalid(password, "secret2")
    \/ \E token \in TokensInBody, password \in Passwords :
         ResetStart(token, password, password)
    \/ \E r \in InFlight : ResetLookup(r)
    \/ \E r \in InFlight : ResetUpdate(r)
    \/ \E r \in InFlight : ResetClear(r)
    \/ \E r \in InFlight : ResetStoreFails(r)

SpecResetFaulty == InitSession /\ [][NextResetFaulty]_vars

(***************************************************************************)
(* SpecTenant: the routes, trips and users resources, from two registered  *)
(* users who each hold a token, one route and one trip.                    *)
(***************************************************************************)
TenantBearers == issued \cup {NoBearer, ForgedBearer}

\* The userId a POST body carries: bob's id, or none.
BodyUserIds == {2, Null}

InitTenant ==
    /\ users = << Row("ana@x.io", "ana", hashPassword("secret1", "saltA")),
                  Row("bob@x.io", "bob", hashPassword("secret1", "saltB")) >>
    /\ now = 0
    /\ reqs = EmptyBag
    /\ last = NoResponse
    /\ nextResetToken = 0
    /\ issued = {generateToken(1), generateToken(2)}
    /\ started = 0
    /\ redeemed = {}
    /\ routes = << RouteRow(1, "Porto", "Braga"), RouteRow(2, "Braga", "Porto") >>
    /\ trips = << TripRow(1, "Porto", "Braga", 0),
                  TripRow(2, "Braga", "Porto", 0) >>
    /\ probe = NoProbe

NextTenant ==
    \/ \E bearer \in TenantBearers : UsersGetRejected(bearer)
    \/ \E bearer \in TenantBearers, id \in UserIds : UsersGet(bearer, id)
    \/ \E id \in UserIds, body \in PartialUserBodies :
         UsersPut(id, body.email, body.username, body.password)
    \/ \E bearer \in TenantBearers : RoutesGetRejected(bearer)
    \/ \E bearer \in TenantBearers, userId \in UserIds :
         RoutesGet(bearer, userId)
    \/ \E bearer \in TenantBearers : RoutesPostRejected(bearer)
    \/ \E bearer \in TenantBearers, userId \in BodyUserIds,
          origin \in Places \cup {NoField} :
         RoutesPost(bearer, userId, origin, "Braga")
    \/ \E bearer \in TenantBearers : TripsPostRejected(bearer)
    \/ \E bearer \in TenantBearers, userId \in BodyUserIds,
          origin \in Places \cup {NoField} :
         TripsPost(bearer, userId, origin, "Braga", now)
    \/ \E id \in 1..(Len(routes) + 1), userId \in BodyUserIds,
          origin \in {"Porto", NoField} :
         RoutesPut(id, userId, origin)
    \/ \E id \in 1..(Len(routes) + 1) : RoutesDelete(id)
    \/ \E id \in 1..(Len(trips) + 1) : TripsDelete(id)
    \/ \E userId \in UserIds : TripsExport(userId)

SpecTenant == InitTenant /\ [][NextTenant]_vars

(***************************************************************************)
(* SpecProfile: PUT /api/auth/profile with bodies of every shape, from the *)
(* table of SpecSession.                                                   *)
(***************************************************************************)
ProfileBearers == issued \cup {NoBearer}

\* ana's own email and username; bob's email; a new username with a
\* password and a reset token; ana's username alone, with a password.
ProfileBodies ==
    {Body("ana@x.io", "ana", NoField, Null),
     Body("bob@x.io", NoField, NoField, Null),
     Body(NoField, "eve", "secret2", BogusToken),
     Body(NoField, "ana", "secret2", Null)}

NextProfile ==
    \/ \E bearer \in ProfileBearers : ProfileRejected(bearer)
    \/ \E bearer \in ProfileBearers, body \in ProfileBodies :
         ProfileStart(bearer, body.email, body.username, body.password,
                      body.resetToken)
    \/ \E r \in InFlight : ProfileCheckEmail(r)
    \/ \E r \in InFlight : ProfileCheckUsername(r)
    \/ \E r \in InFlight : ProfileUpdate(r)

SpecProfile == InitSession /\ [][NextProfile]_vars

(***************************************************************************)
(* SpecHash: hashPassword and comparePassword on their own.  A password    *)
(* is its sequence of bytes here, of any length: no schema bounds it.      *)
(***************************************************************************)
LongPrefix == [i \in 1..BCRYPT_MAX_BYTES |-> 97]

HashPasswords ==
    {<<97>>, <<98>>, <<97, 98>>, LongPrefix,
     Append(LongPrefix, 49), Append(LongPrefix, 50)}

HashSalts == Salts \cup {"saltC"}

InitHash ==
    /\ users = << >>
    /\ now = 0
    /\ reqs = EmptyBag
    /\ last = NoResponse
    /\ nextResetToken = 0
    /\ issued = {}
    /\ started = 0
    /\ redeemed = {}
    /\ NoTenantData

\* hashPassword(password), bcrypt drawing the salt.
HashProbe(password, salt) ==
    /\ probe' = [fn |-> "hashPassword", hashed |-> password,
                 hash |-> hashPassword(password, salt),
                 password |-> << >>, result |-> FALSE]
    /\ UNCHANGED <<users, now, reqs, last, nextResetToken, issued, started,
                   redeemed, routes, trips>>

\* comparePassword(password, hash) on the hash of the last hashPassword.
CompareProbe(password) ==
    /\ probe # NoProbe
    /\ probe' = [probe EXCEPT !.fn = "comparePassword",
                              !.password = password,
                              !.result = comparePassword(password, probe.hash)]
    /\ UNCHANGED <<users, now, reqs, last, nextResetToken, issued, started,
                   redeemed, routes, trips>>

NextHash ==
    \/ \E password \in HashPasswords, salt \in HashSalts :
         HashProbe(password, salt)
    \/ \E password \in HashPasswords : CompareProbe(password)

SpecHash == InitHash /\ [][NextHash]_vars

(***************************************************************************)
(* SpecTop: getTopRoutes on its own, over trips tables in which ana has    *)
(* travelled each of six routes up to MaxTripsPerRoute times and bob one   *)
(* of them three times.                                                    *)
(***************************************************************************)
TopPairs ==
    << <<"Porto", "Braga">>, <<"Braga", "Porto">>, <<"Porto", "Faro">>,
       <<"Faro", "Porto">>, <<"Braga", "Faro">>, <<"Faro", "Braga">> >>

\* `count` trips of the user on the k-th route.
TripsOn(userId, k, count) ==
    [i \in 1..count |-> TripRow(userId, TopPairs[k][1], TopPairs[k][2], 0)]

RECURSIVE TripsTable(_, _)
TripsTable(counts, k) ==
    IF k = 0 THEN TripsOn(2, 6, 3)
    ELSE TripsTable(counts, k - 1) \o TripsOn(1, k, counts[k])

InitTop ==
    /\ users = << Row("ana@x.io", "ana", hashPassword("secret1", "saltA")),
                  Row("bob@x.io", "bob", hashPassword("secret1", "saltB")) >>
    /\ NoRequests
    /\ routes = << >>
    /\ probe = NoProbe
    /\ \E counts \in [1..Len(TopPairs) -> 0..MaxTripsPerRoute] :
         trips = TripsTable(counts, Len(TopPairs))

\* getTopRoutes(userId) returns.
TopRoutesProbe(userId) ==
    /\ \E result \in getTopRoutes(userId) :
         probe' = [fn |-> "getTopRoutes", userId |-> userId,
                   result |-> result]
    /\ UNCHANGED <<users, now, reqs, last, nextResetToken, issued, started,
                   redeemed, routes, trips>>

NextTop == \E userId \in UserIds : TopRoutesProbe(userId)

SpecTop == InitTop /\ [][NextTop]_vars

(***************************************************************************)
(* SpecStats: getTripStats on its own, in the second month of the          *)
(* calendar, over trips tables in which ana has at most one trip at each   *)
(* of five instants and bob one in the middle of the month.                *)
(***************************************************************************)
HOUR_S == 3600

\* The last day of the month before; the 1st at 6 and at 18 o'clock; the
\* 15th at noon; the 1st of the month after at noon.
StatsDates ==
    {MONTH_S - DAY_S, MONTH_S + 6 * HOUR_S, MONTH_S + 18 * HOUR_S,
     MONTH_S + 14 * DAY_S + 12 * HOUR_S, 2 * MONTH_S + 12 * HOUR_S}

\* The 1st at noon, the 15th at midnight and at noon.
StatsNows ==
    {MONTH_S + 12 * HOUR_S, MONTH_S + 14 * DAY_S,
     MONTH_S + 14 * DAY_S + 12 * HOUR_S}

\* One trip of the user at each date, in the order of the dates.
RECURSIVE TripsAt(_, _)
TripsAt(userId, dates) ==
    IF dates = {}
    THEN << >>
    ELSE LET first == CHOOSE d \in dates : \A e \in dates : d <= e
         IN <<TripRow(userId, "Porto", "Braga", first)>>
              \o TripsAt(userId, dates \ {first})

InitStats ==
    /\ users = << Row("ana@x.io", "ana", hashPassword("secret1", "saltA")),
                  Row("bob@x.io", "bob", hashPassword("secret1", "saltB")) >>
    /\ now \in StatsNows
    /\ reqs = EmptyBag
    /\ last = NoResponse
    /\ nextResetToken = 0
    /\ issued = {}
    /\ started = 0
    /\ redeemed = {}
    /\ routes = << >>
    /\ probe = NoProbe
    /\ \E dates \in SUBSET StatsDates :
         trips = TripsAt(2, {MONTH_S + 14 * DAY_S}) \o TripsAt(1, dates)

\* getTripStats(userId) returns.
StatsProbe(userId) ==
    /\ probe' = [fn |-> "getTripStats", userId |-> userId,
                 result |-> getTripStats(userId)]
    /\ UNCHANGED <<users, now, reqs, last, nextResetToken, issued, started,
                   redeemed, routes, trips>>

NextStats == \E userId \in UserIds : StatsProbe(userId)

SpecStats == InitStats /\ [][NextStats]_vars

(***************************************************************************)
(* The reset-token lifecycle: what a token opens, and when.                *)
(***************************************************************************)
Holds(u, token) == users[u].resetToken = token

\* Some row holds the token with an expiry not before `date`.
Redeemable(token, date) ==
    \E u \in UserIds : /\ Holds(u, token)
                       /\ users[u].resetTokenExpiry # Null
                       /\ users[u].resetTokenExpiry >= date

\* Some row holds the token with an expiry after `date`.
RedeemableStrictly(token, date) ==
    \E u \in UserIds : /\ Holds(u, token)
                       /\ users[u].resetTokenExpiry # Null
                       /\ users[u].resetTokenExpiry > date

\* The request leaves its lookup for the password update of a row that
\* holds its token.
GoesOn(r) ==
    \E u \in UserIds :
        /\ Holds(u, r.token)
        /\ Move(r, [r EXCEPT !.pc = "update", !.uid = u, !.at = Null])

\* The request ends with 400 "invalid or expired" and the table is as it was.
Refused(r) ==
    /\ Retire(r)
    /\ last' = Response("reset", 400, MsgResetInvalid, BodyOf(r))
    /\ users' = users

\* C1: a reset-password request carrying a stored, unexpired token goes on
\* to the password update and then to the 200 response, after which both
\* reset columns of the user are NULL; a reset-password request whose lookup
\* runs after a 200 for the same token gets 400 "invalid or expired" and
\* changes nothing.
C1_RedeemThenRefuse ==
    [][\A r \in InFlight :
          /\ (ResetLookup(r) /\ Redeemable(r.token, r.at))
                => (GoesOn(r) /\ users' = users /\ last' = last)
          /\ ResetUpdate(r)
                => (/\ Move(r, [r EXCEPT !.pc = "clear"])
                    /\ last' = last)
          /\ ResetClear(r)
                => (/\ last'.status = 200
                    /\ last'.message = MsgResetDone
                    /\ users'[r.uid].resetToken = Null
                    /\ users'[r.uid].resetTokenExpiry = Null)
          /\ (ResetLookup(r) /\ r.token \in redeemed) => Refused(r)]_vars

\* A redeemed token was presented again and refused.
C1_Witness ==
    /\ last.op = "reset"
    /\ last.status = 400
    /\ last.message = MsgResetInvalid
    /\ last.request.resetToken \in redeemed

\* C2: across all reset-password requests carrying one token, at most one
\* gets the 200 response.
C2_SingleUse ==
    [][\A r \in InFlight : ResetClear(r) => r.token \notin redeemed]_vars

\* C3: a reset-password request goes on to the update only if some row
\* holds its token with an expiry strictly after the instant of the lookup;
\* otherwise it gets 400 "invalid or expired" and no row changes.
C3_StrictlyFuture ==
    [][\A r \in InFlight :
          ResetLookup(r) =>
              IF RedeemableStrictly(r.token, r.at)
              THEN GoesOn(r) /\ users' = users
              ELSE Refused(r)]_vars

\* The table differs from the one before at most in the reset columns of u.
OnlyResetColumnsOf(u) ==
    users' = [users EXCEPT ![u].resetToken = users'[u].resetToken,
                           ![u].resetTokenExpiry = users'[u].resetTokenExpiry]

\* C4: forgot-password answers a well-formed email with the same 200 and
\* the same message whether or not a user has it; for an unknown email no
\* row changes, for a known one the token and expiry are set on that user's
\* row and on no other.
C4_ForgotUniform ==
    [][/\ \A email \in Emails \cup {UnknownEmail} :
            ForgotLookup(email) =>
                /\ users' = users
                /\ IF \A u \in UserIds : users[u].email # email
                   THEN /\ last'.status = 200
                        /\ last'.message = MsgForgotGeneric
                        /\ reqs' = reqs
                   ELSE /\ last' = last
                        /\ \E q \in BagToSet(reqs') :
                              /\ q.kind = "forgot"
                              /\ q.email = email
                              /\ users[q.uid].email = email
       /\ \A r \in InFlight :
            /\ ForgotGenerate(r) => (users' = users /\ last' = last)
            /\ ForgotSet(r) =>
                 /\ last'.status = 200
                 /\ last'.message = MsgForgotGeneric
                 /\ users[r.uid].email = r.email
                 /\ users'[r.uid].resetToken = r.token
                 /\ users'[r.uid].resetToken # Null
                 /\ users'[r.uid].resetTokenExpiry # Null
                 /\ OnlyResetColumnsOf(r.uid)]_vars

\* An unknown email was answered with the generic 200 while a known email's
\* token is stored.
C4_Witness ==
    /\ last = Response("forgot", 200, MsgForgotGeneric,
                       Body(UnknownEmail, NoField, NoField, Null))
    /\ \E u \in UserIds : users[u].resetToken # Null

\* Tokens a forgot-password request has generated and not yet stored.
Unstored == {q.token : q \in {x \in InFlight : x.kind = "forgot"}} \ {Null}

Identifiers == Emails \cup Usernames

\* C6: a login whose identifier matches no user and a login whose
\* identifier matches users none of which has the supplied password get the
\* same response, 401 with the one credentials message and no token; no
\* token is issued and the table is as it was.
C6_LoginFailuresAlike ==
    [][\A e \in Identifiers, p \in Passwords :
          (/\ Login(e, p)
           /\ \A id \in getUserByEmailOrUsername(e) :
                  ~comparePassword(p, users[id].password))
            => /\ last'.op = "login"
               /\ last'.status = 401
               /\ last'.message = MsgInvalidCredentials
               /\ last'.token = NoBearer
               /\ issued' = issued
               /\ users' = users]_vars

\* A login with a registered email and a wrong password was answered 401.
C6_Witness ==
    /\ last.op = "login"
    /\ last.status = 401
    /\ last.message = MsgInvalidCredentials
    /\ \E u \in UserIds :
         /\ users[u].email = last.request.email
         /\ Len(users[u].password) = 3
         /\ ~comparePassword(last.request.password, users[u].password)

\* C7: a login with a user's current email and current password gets 200
\* and a bearer token that verifies to that user's id.
C7_CurrentCredentialsOpen ==
    [][\A u \in UserIds, p \in Passwords :
          (Login(users[u].email, p) /\ comparePassword(p, users[u].password))
            => /\ last'.status = 200
               /\ verifyToken(last'.token) = u]_vars

\* C8: a register request with matching passwords whose email a user
\* already has gets 400 naming the email, and one whose username a user
\* already has gets 400 naming the username; the request ends there and the
\* table is as it was.
C8_RegisterConflicts ==
    [][/\ \A e \in Emails, n \in Usernames, p \in Passwords :
            (RegisterCheckEmail(e, n, p, p)
               /\ \E u \in UserIds : users[u].email = e)
              => /\ last'.op = "register"
                 /\ last'.status = 400
                 /\ last'.message = MsgEmailInUse
                 /\ reqs' = reqs
                 /\ users' = users
       /\ \A r \in InFlight :
            (RegisterCheckUsername(r)
               /\ \E u \in UserIds : users[u].username = r.username)
              => /\ last'.op = "register"
                 /\ last'.status = 400
                 /\ last'.message = MsgUsernameInUse
                 /\ Retire(r)
                 /\ users' = users]_vars

\* A register request with a registered email was answered 400 naming the
\* email.
C8_Witness ==
    /\ last.op = "register"
    /\ last.status = 400
    /\ last.message = MsgEmailInUse
    /\ \E u \in UserIds : users[u].email = last.request.email

\* C9: no two rows of the users table have the same email, and no two have
\* the same username.
C9_UniqueEmailAndUsername ==
    \A u, v \in UserIds :
        u # v => /\ users[u].email # users[v].email
                 /\ users[u].username # users[v].username

\* A register request that passed both lookups lost the race for its email
\* or username and was answered 500; the table holds the winner.
C9_Witness ==
    /\ last.op = "register"
    /\ last.status = 500
    /\ \E u \in UserIds : \/ users[u].email = last.request.email
                          \/ users[u].username = last.request.username

\* C10: every row's password column holds an output of hashPassword.
C10_PasswordsAreHashes ==
    \A u \in UserIds :
        \E p \in Passwords \cup {ShortPassword}, salt \in Salts :
            users[u].password = hashPassword(p, salt)

(***************************************************************************)
(* Response payloads.                                                     *)
(***************************************************************************)
\* C11: no response that carries a user record carries the record's
\* password, resetToken or resetTokenExpiry column.
C11_NoSensitiveColumns == DOMAIN last.user \cap SensitiveColumns = {}

(***************************************************************************)
(* Sessions: the middleware, the bearer token and change-password.         *)
(***************************************************************************)
\* The password is not the one the stored value was hashed from.
NotHashOf(password, stored) ==
    \A salt \in Salts : stored # hashPassword(password, salt)

\* C12: a change-password request whose currentPassword is not the one the
\* caller's stored hash was made from gets 400 "Senha atual incorreta", ends
\* there, and leaves every row of the users table as it was.
C12_WrongCurrentPassword ==
    [][\A bearer \in Bearers, currentPassword \in Passwords :
          (/\ ChangeGetUser(bearer, currentPassword, "secret2")
           /\ bearer.userId \in UserIds
           /\ NotHashOf(currentPassword, users[bearer.userId].password))
            => /\ last'.op = "change"
               /\ last'.status = 400
               /\ last'.message = MsgCurrentIncorrect
               /\ reqs' = reqs
               /\ users' = users]_vars

\* A change-password with a wrong current password was answered 400.
C12_Witness ==
    /\ last.op = "change"
    /\ last.status = 400
    /\ last.message = MsgCurrentIncorrect
    /\ \E u \in UserIds : Len(users[u].password) = 3

\* The header carries a JWT with the server's signature and an exp claim
\* that lies ahead.
Verifies(bearer) ==
    bearer.form = "jwt" /\ bearer.signed /\ now < bearer.exp

\* What the middleware answers for a header that does not verify.
GateAnswer(op, bearer) ==
    /\ ~Verifies(bearer)
    /\ last'.op = op
    /\ last'.status = IF bearer.form = "none" THEN 401 ELSE 403
    /\ reqs' = reqs
    /\ users' = users

\* One request more is in flight, it runs as the token's user, and no
\* response was sent.
RunsOnceAs(kind, bearer) ==
    /\ \E q \in BagToSet(reqs') :
          /\ q.kind = kind
          /\ q.uid = bearer.userId
          /\ reqs' = reqs (+) SetToBag({q})
    /\ last' = last

\* C13: behind authenticateToken (GET /api/auth/me, POST
\* /api/auth/change-password, PUT /api/auth/profile) a request without a
\* token gets 401 and one whose token does not verify gets 403, neither
\* reaching the handler; otherwise the handler runs once with req.userId the
\* token's user id; the step changes no row.
C13_Gate ==
    [][started' # started => \A bearer \in Bearers :
          /\ MeRejected(bearer) => GateAnswer("me", bearer)
          /\ ChangeRejected(bearer) => GateAnswer("change", bearer)
          /\ ProfileRejected(bearer) => GateAnswer("profile", bearer)
          /\ Me(bearer) =>
                /\ Verifies(bearer)
                /\ last'.op = "me"
                /\ last'.status = 200 => last'.user.id = bearer.userId
                /\ reqs' = reqs
                /\ users' = users
          /\ \A currentPassword \in Passwords :
                ChangeGetUser(bearer, currentPassword, "secret2") =>
                    /\ Verifies(bearer)
                    /\ \/ last'.op = "change" /\ reqs' = reqs
                       \/ RunsOnceAs("change", bearer)
                    /\ users' = users
          /\ ProfileStart(bearer, NoField, "ana@x.io", NoField, Null) =>
                /\ Verifies(bearer)
                /\ RunsOnceAs("profile", bearer)
                /\ users' = users]_vars

\* A token past its exp claim was answered 403 by the middleware.
C13_Witness ==
    /\ last.op = "change"
    /\ last.status = 403
    /\ last.message = MsgTokenInvalid
    /\ \E bearer \in issued : now >= bearer.exp

\* C14: a token generateToken(u) returned at time t verifies to u at every
\* time from t up to t + 30 days and to null at every time after t + 30
\* days; a string that is no JWT and a JWT with another signature verify to
\* null.
C14_TokenLifetime ==
    /\ \A token \in issued :
          /\ token.iat <= now
          /\ token.userId \in UserIds
          /\ now < token.iat + SESSION_TTL_DAYS * 86400
                => verifyToken(token) = token.userId
          /\ now > token.iat + SESSION_TTL_DAYS * 86400
                => verifyToken(token) = Null
    /\ verifyToken(MalformedBearer) = Null
    /\ verifyToken(ForgedBearer) = Null

\* One token issued after time 0 still verifies some time later while
\* another has outlived its 30 days.
C14_Witness ==
    /\ \E token \in issued :
          /\ token.iat > 0
          /\ now > token.iat
          /\ verifyToken(token) = token.userId
    /\ \E token \in issued :
          /\ now > token.iat + SESSION_TTL_DAYS * 86400
          /\ verifyToken(token) = Null

\* C19: whether the middleware accepts an issued token depends on its exp
\* claim alone: whatever has happened to the user's row since (a
\* change-password, a reset-password, a profile update), the token is
\* accepted until its expiry, and a GET /api/auth/me carrying it answers
\* with the record of the token's user.
C19_StatelessSession ==
    [][/\ \A bearer \in issued : now < bearer.exp => ~AuthRejects(bearer)
       /\ \A bearer \in issued :
            Me(bearer) => /\ last'.status = 200
                          /\ last'.user.id = bearer.userId]_vars

\* ana's tokens all date from before her password was reset and her
\* username changed, and the last exchange is a GET /api/auth/me answered
\* with her record.
C19_Witness ==
    /\ last.op = "me"
    /\ last.status = 200
    /\ last.user.id = 1
    /\ redeemed = {1}
    /\ users[1].username = "ana@x.io"
    /\ \A bearer \in issued : bearer.iat = 0

(***************************************************************************)
(* Tenants.                                                                *)
(***************************************************************************)
\* The rows of a table that a step changed or deleted.
Touched(before, after) ==
    {id \in DOMAIN before : after[id] # before[id]}

\* C15: a request reads, exports, updates or deletes a route, a trip or a
\* user record only when it runs under a verified token of the owner: every
\* row a step changes or deletes and every row its response carries belongs
\* to the user the handler ran as, and a request that ran as no user was
\* answered 401 or 403.
C15_TenantIsolation ==
    [][/\ \A id \in Touched(routes, routes') :
            last'.caller = routes[id].userId
       /\ \A id \in Touched(trips, trips') :
            last'.caller = trips[id].userId
       /\ \A id \in Touched(users, users') : last'.caller = id
       /\ started' # started =>
            /\ \A row \in last'.rows : row.userId = last'.caller
            /\ last'.user # NoUser => last'.user.id = last'.caller
            /\ last'.caller = Null => last'.status \in {401, 403}]_vars

(***************************************************************************)
(* The profile.                                                            *)
(***************************************************************************)
\* The columns PUT /api/auth/profile must not reach.
Credentials(row) ==
    <<row.password, row.resetToken, row.resetTokenExpiry>>

\* C16: no step of a PUT /api/auth/profile request, whatever its body
\* holds, changes the caller's password hash, reset token or reset-token
\* expiry, or any column of another user.
C16_ProfileFrame ==
    [][\A r \in InFlight :
         (ProfileCheckEmail(r) \/ ProfileCheckUsername(r) \/ ProfileUpdate(r))
         => /\ Credentials(users'[r.uid]) = Credentials(users[r.uid])
            /\ \A id \in UserIds : id # r.uid => users'[id] = users[id]]_vars

\* A profile update went through and renamed the caller although its body
\* carried a password and a reset token; the credentials are those of the
\* start.
C16_Witness ==
    /\ last.op = "profile"
    /\ last.status = 200
    /\ last.request.password = "secret2"
    /\ last.request.resetToken = BogusToken
    /\ last.user.id = 1
    /\ users[1].username = "eve"
    /\ Credentials(users[1]) =
         <<hashPassword("secret1", "saltA"), 1, RESET_TTL_S>>

\* Some other user holds the email (the username).
EmailOfAnother(uid, email) ==
    \E id \in UserIds : id # uid /\ users[id].email = email

UsernameOfAnother(uid, username) ==
    \E id \in UserIds : id # uid /\ users[id].username = username

\* The request ended at this step.
Ended(r) == reqs' = reqs (-) SetToBag({r})

C17_WitnessOwn ==
    /\ last.op = "profile"
    /\ last.status = 200
    /\ last.request.email = "ana@x.io"
    /\ last.request.username = "ana"
    /\ last.user.id = 1

(***************************************************************************)
(* Hashing.                                                                *)
(***************************************************************************)
\* C18: comparePassword(p, hashPassword(p)) is true, and
\* comparePassword(p1, hashPassword(p2)) is false for distinct p1 and p2.
C18_HashRoundTrip ==
    probe.fn = "comparePassword"
    => (probe.result <=> probe.password = probe.hashed)

(***************************************************************************)
(* Time and the store.                                                     *)
(***************************************************************************)
\* The row holds a token whose expiry is not in the future.
Expired(u) ==
    /\ users[u].resetToken # Null
    /\ users[u].resetTokenExpiry # Null
    /\ users[u].resetTokenExpiry <= now

ResetColumns(row) == <<row.resetToken, row.resetTokenExpiry>>

\* C20: a step in which time passes leaves the table as it was; the reset
\* columns of a row whose token has expired change only when a
\* forgot-password for that user stores a new token; the lookup of a
\* reset-password request changes no row.
C20_ExpiredTokenStays ==
    [][/\ now' # now => users' = users
       /\ \A u \in UserIds :
            (Expired(u) /\ ResetColumns(users'[u]) # ResetColumns(users[u]))
            => \E r \in InFlight : r.uid = u /\ ForgotSet(r)
       /\ \A r \in InFlight : ResetLookup(r) => users' = users]_vars

(***************************************************************************)
(* Concurrent requests.                                                    *)
(***************************************************************************)
\* Some row of the table after the step holds the token with an expiry not
\* before `date`.
RedeemableAfter(token, date) ==
    \E u \in UserIds : /\ users'[u].resetToken = token
                       /\ users'[u].resetTokenExpiry # Null
                       /\ users'[u].resetTokenExpiry >= date

\* C21: when a forgot-password request stores its pair on a row that holds
\* the token of another forgot-password request, the row holds the token and
\* the expiry of the storing request, both; the other token is redeemable no
\* more, at any date, and the stored one is, up to its expiry; the response
\* is the generic 200, the same for both requests.
C21_ForgotLastWriteWins ==
    [][\A r \in InFlight :
          ForgotSet(r) =>
             /\ ResetColumns(users'[r.uid]) = <<r.token, r.expiry>>
             /\ last' = Response("forgot", 200, MsgForgotGeneric,
                                 Body(r.email, NoField, NoField, Null))
             /\ r.expiry >= now => RedeemableAfter(r.token, now)
             /\ users[r.uid].resetToken \notin {Null, r.token} =>
                  ~RedeemableAfter(users[r.uid].resetToken, 0)]_vars

\* Two forgot-password requests for ana have completed, the one whose token
\* was generated second stored it first: the row holds the pair of the
\* first, generated an hour before the other.
C21_Witness ==
    /\ reqs = EmptyBag
    /\ started = 2
    /\ nextResetToken = 2
    /\ redeemed = {}
    /\ last = Response("forgot", 200, MsgForgotGeneric,
                       Body("ana@x.io", NoField, NoField, Null))
    /\ ResetColumns(users[1]) = <<1, RESET_TTL_S>>
    /\ now = RESET_TTL_S
    /\ users[2].resetToken = Null

\* C22: a register request that ends because a row already has its email or
\* its username is answered 400 with the message of that field, at the
\* lookups and at the insert alike.
C22_RegisterConflictAlways ==
    [][\A r \in InFlight :
          /\ (RegisterCheckUsername(r)
                /\ \E u \in UserIds : users[u].username = r.username)
               => /\ last'.status = 400
                  /\ last'.message = MsgUsernameInUse
          /\ (RegisterCreate(r)
                /\ \E u \in UserIds : \/ users[u].email = r.email
                                      \/ users[u].username = r.username)
               => /\ last'.status = 400
                  /\ last'.message =
                       IF \E u \in UserIds : users[u].email = r.email
                       THEN MsgEmailInUse ELSE MsgUsernameInUse
                  /\ users' = users]_vars

(***************************************************************************)
(* The password after a reset.                                             *)
(***************************************************************************)
\* The stored value is an output of hashPassword for the password.
HashOf(password, stored) ==
    \E salt \in Salts : stored = hashPassword(password, salt)

\* C23: when a reset-password request for user u with new password p is
\* answered 200, u's stored hash is a hash of p, and from then on, as long
\* as no later request has replaced the hash, a login as u with p is
\* answered 200 and a login as u with another password 401.
C23_ResetThenLogin ==
    [][\A r \in InFlight :
          ResetClear(r) =>
             /\ last'.status = 200
             /\ HashOf(r.password, users'[r.uid].password)
             /\ \A p \in Passwords :
                  LoginResponse(r.uid, users[r.uid].email, p).status =
                    IF p = r.password THEN 200 ELSE 401]_vars

(***************************************************************************)
(* Ownership of what is created.                                           *)
(***************************************************************************)
\* The table grew by one row, owned by the user, the rows before as they
\* were.
GrewFor(before, after, userId) ==
    /\ Len(after) = Len(before) + 1
    /\ after[Len(after)].userId = userId
    /\ \A id \in DOMAIN before : after[id] = before[id]

\* C24: a POST /api/routes or POST /api/trips that stores a row stores it
\* with the userId of the token the request came with, whatever userId the
\* body carries; one that stores none leaves the table as it was.
C24_CreatedForCaller ==
    [][last'.op \in {"routes.post", "trips.post"} =>
         \A bearer \in TenantBearers, userId \in BodyUserIds,
            origin \in Places \cup {NoField} :
              /\ RoutesPost(bearer, userId, origin, "Braga") =>
                   /\ bearer \in issued
                   /\ \/ routes' = routes /\ last'.status = 400
                      \/ /\ GrewFor(routes, routes', bearer.userId)
                         /\ last'.status = 201
              /\ TripsPost(bearer, userId, origin, "Braga", now) =>
                   /\ bearer \in issued
                   /\ \/ trips' = trips /\ last'.status = 400
                      \/ /\ GrewFor(trips, trips', bearer.userId)
                         /\ last'.status = 201]_vars

\* ana posted a trip whose body named bob, the only userId a body names
\* here: the row is hers.
C24_Witness ==
    /\ last.op = "trips.post"
    /\ last.status = 201
    /\ last.caller = 1
    /\ Len(trips) = 3
    /\ trips[3].userId = 1
    /\ WithId(3, trips[3]) \in last.rows

(***************************************************************************)
(* Analytics.                                                              *)
(***************************************************************************)
\* The trips of the user on the route.
TripsOf(userId, origin, destination) ==
    {i \in DOMAIN trips : /\ trips[i].userId = userId
                          /\ trips[i].origin = origin
                          /\ trips[i].destination = destination}

\* C25: getTopRoutes(u) returns at most 5 entries, no two for the same
\* origin and destination, each for a route u has travelled and with the
\* number of u's trips on it as tripCount, in an order in which tripCount
\* does not increase; a route of u's that is left out has no more trips
\* than any entry, and none is left out while there are fewer than 5
\* entries.
C25_TopRoutes ==
    probe.fn = "getTopRoutes" =>
      LET result == probe.result
          u == probe.userId
      IN /\ Len(result) <= 5
         /\ \A i, j \in DOMAIN result :
              /\ (i # j) =>
                   <<result[i].origin, result[i].destination>> #
                   <<result[j].origin, result[j].destination>>
              /\ (i < j) => result[i].tripCount >= result[j].tripCount
         /\ \A i \in DOMAIN result :
              /\ result[i].tripCount > 0
              /\ result[i].tripCount =
                   Cardinality(TripsOf(u, result[i].origin,
                                       result[i].destination))
         /\ \A k \in DOMAIN trips :
              (/\ trips[k].userId = u
               /\ \A i \in DOMAIN result :
                    <<result[i].origin, result[i].destination>> #
                    <<trips[k].origin, trips[k].destination>>)
              => /\ Len(result) = 5
                 /\ \A i \in DOMAIN result :
                      result[i].tripCount >=
                        Cardinality(TripsOf(u, trips[k].origin,
                                            trips[k].destination))

\* ana has travelled six routes, the one bob travels three times only
\* once: her five entries leave that one out, and the first has more trips
\* than the last.
C25_Witness ==
    /\ probe.fn = "getTopRoutes"
    /\ probe.userId = 1
    /\ Len(probe.result) = 5
    /\ probe.result[1].tripCount > probe.result[5].tripCount
    /\ Cardinality(TripsOf(1, "Faro", "Braga")) = 1
    /\ \A i \in 1..5 : probe.result[i].origin # "Faro"
                       \/ probe.result[i].destination # "Braga"

\* The first instant of the calendar month of an instant.
MonthStart(t) == t - (t % MONTH_S)

\* C26: monthlyTrips of getTripStats(u) at time now is the number of u's
\* trips dated in the calendar month of now, from the first instant of its
\* 1st up to the first instant of the month after.
C26_MonthlyTrips ==
    probe.fn = "getTripStats" =>
      probe.result.monthlyTrips =
        Cardinality({i \in DOMAIN trips :
                        /\ trips[i].userId = probe.userId
                        /\ trips[i].date >= MonthStart(now)
                        /\ trips[i].date < MonthStart(now) + MONTH_S})

(***************************************************************************)
(* What changes a password.                                                *)
(***************************************************************************)
\* C27: the password column of a user's row changes only in the update of
\* a change-password request of that user, which follows the verification
\* of the current password, or in the update of a reset-password request
\* whose lookup found that user's token.
C27_OnlyChangeOrReset ==
    [][\A u \in UserIds :
          users'[u].password # users[u].password
            => \E r \in InFlight :
                  /\ r.uid = u
                  /\ ChangeUpdate(r) \/ ResetUpdate(r)]_vars

(***************************************************************************)
(* Interleaved forgot-password and reset-password requests.                *)
(***************************************************************************)
\* C28: the reset columns of a row that holds a token change only when a
\* forgot-password request for that user stores a new pair or when a
\* reset-password request that looked up that very token clears it; time
\* takes the token away only from its expiry on.
C28_TokenOutlivesOlderRedemption ==
    [][\A u \in UserIds :
          /\ (/\ users[u].resetToken # Null
              /\ ResetColumns(users'[u]) # ResetColumns(users[u]))
               => \E r \in InFlight :
                     /\ r.uid = u
                     /\ \/ ForgotSet(r)
                        \/ ResetClear(r) /\ r.token = users[u].resetToken
          /\ (/\ now' # now
              /\ users[u].resetToken # Null
              /\ users[u].resetTokenExpiry >= now')
               => Redeemable(users[u].resetToken, now)']_vars

(***************************************************************************)
(* Reset-password as one unit.                                             *)
(***************************************************************************)
\* C29: when the only request a run has started is a reset-password request
\* and it has ended, a non-200 answer leaves ana's password hash, reset
\* token and expiry as they were before it, and a 200 answer leaves a hash
\* of the body's password and both reset columns null.
C29_ResetAllOrNothing ==
    (started = 1 /\ reqs = EmptyBag /\ last.op = "reset")
      => /\ last.status # 200
           => /\ users[1].password = hashPassword("secret1", "saltA")
              /\ ResetColumns(users[1]) = <<1, RESET_TTL_S>>
         /\ last.status = 200
           => /\ comparePassword(last.request.password, users[1].password)
              /\ ResetColumns(users[1]) = <<Null, Null>>

(***************************************************************************)
(* The reset columns under change-password and profile update.             *)
(***************************************************************************)
\* C30: when a change-password or PUT /auth/profile request of a user who
\* holds an unexpired reset token is answered 200, the user's reset token
\* and expiry are as before, and afterwards the lookup of that token finds
\* the user at every date from now up to the expiry.
C30_ResetColumnsKept ==
    [][\A r \in InFlight :
         (/\ ChangeUpdate(r) \/ ProfileUpdate(r)
          /\ last'.status = 200
          /\ r.uid \in UserIds
          /\ users[r.uid].resetToken # Null
          /\ users[r.uid].resetTokenExpiry >= now)
         => /\ ResetColumns(users'[r.uid]) = ResetColumns(users[r.uid])
            /\ \A date \in {now, users[r.uid].resetTokenExpiry} :
                 RedeemableAfter(users[r.uid].resetToken, date)]_vars

\* A change-password request of ana was answered 200 and she still holds
\* reset token 1, unexpired.
C30_Witness ==
    /\ last.op = "change"
    /\ last.status = 200
    /\ comparePassword("secret2", users[1].password)
    /\ ResetColumns(users[1]) = <<1, RESET_TTL_S>>
    /\ users[1].resetTokenExpiry >= now

\* A profile update of ana was answered 200 and she still holds reset
\* token 1, unexpired.
C30_WitnessProfile ==
    /\ last.op = "profile"
    /\ last.status = 200
    /\ last.user.id = 1
    /\ ResetColumns(users[1]) = <<1, RESET_TTL_S>>
    /\ users[1].resetTokenExpiry >= now

====
